---- MODULE Spec2Model ----
(***************************************************************************)
(* Model of email-validator-backend/app.py: the asynchronous email         *)
(* validation job.  A Submit request (validate_emails) extracts the        *)
(* addresses of an upload, writes the initial progress file and starts a   *)
(* background worker (_process); the worker verifies one address at a      *)
(* time, rewrites the progress file after each, writes the two result      *)
(* tables (save_results) and finally rewrites the progress file with       *)
(* status "complete".  GetProgress and Download read those files.          *)
(*                                                                         *)
(* Files are modelled by what the file system shows to a concurrent        *)
(* reader: open(path, 'w') creates/truncates the file at once, the data    *)
(* arrives when the buffered writer is flushed at the end of the with      *)
(* block.  Each file is [exists, content]; content is a sequence, <<>> for *)
(* a file that has been truncated and not yet written.                     *)
(*                                                                         *)
(* Sessions share no state: every path is keyed by the session's fresh     *)
(* uuid4 (lines 46, 50, 69, 182, 183).  Spec follows one session together  *)
(* with the client that polls it and downloads its tables; SpecWorkers     *)
(* runs several sessions side by side, without a polling client.           *)
(*                                                                         *)
(* The 'percentage' key of the snapshot (line 89) is a function of         *)
(* 'processed' and 'total' and is left out of the snapshot record.         *)
(***************************************************************************)
EXTENDS Integers, Sequences, FiniteSets, TLC

\* ---------------------------------------------------------------- bounds
MaxSessions == 2      \* sessions of SpecWorkers, where workers run side by side
MaxRows == 3          \* data rows of an uploaded table

\* ------------------------------------------------------- program constants
DEFAULT_MAX_EMAILS == 100   \* os.getenv('MAX_EMAILS', 100)
DEFAULT_API_KEY == "f4488df3"   \* the fallback of os.getenv('API_KEY', ...)

Sessions == 1..MaxSessions
Polled == {1}         \* the session Spec follows, by its id
Addresses == {"a@x.io", "b@x.io"}
NaN == "NaN"          \* an absent cell of the selected column
Cells == Addresses \cup {NaN}
Absent == -1          \* a key the snapshot does not carry (yet)

VARIABLES
    proc,         \* the process: its environment, start-up phase and configuration
    reqpc,        \* position of the request thread of each Submit
    submitResp,   \* the HTTP response of each Submit
    extracted,    \* addresses found in each upload, before the cut to MAX_EMAILS
    emails,       \* closure variable 'emails' of each accepted Submit
    vp,           \* closure variable 'validation_progress' (in memory)
    progressFile, \* results/<id>_progress.json
    validFile,    \* results/<id>_valid_emails.csv
    invalidFile,  \* results/<id>_invalid_emails.csv
    wpc,          \* position of each session's worker thread
    results,      \* the worker's local dict 'results', in insertion order
    callLog,      \* the verification calls made for each session, in order
    writes,       \* opens-for-write of each session's files in results/
    lastProg,     \* the last GetProgress exchange seen by the client
    lastDl        \* the last Download exchange seen by the client

vars == <<proc, reqpc, submitResp, extracted, emails, vp, progressFile, validFile,
          invalidFile, wpc, results, callLog, writes, lastProg, lastDl>>

\* ---------------------------------------------------------- configuration
\* The environment of the process: each variable is unset or holds a text.
Unset == "<unset>"
EnvApiKeys == {Unset, "secret"}
EnvMaxEmails == {Unset, "abc", "-1", "0", "1", "2"}
Environments == [API_KEY : EnvApiKeys, MAX_EMAILS : EnvMaxEmails]

\* int(text): the integer a text denotes; a text outside the domain makes
\* int() raise ValueError
IntOf == [text \in {"-1", "0", "1", "2"} |->
             CASE text = "-1" -> 0 - 1
               [] text = "0" -> 0
               [] text = "1" -> 1
               [] text = "2" -> 2]

\* lines 26-28: API_KEY and MAX_EMAILS from the environment, each with its
\* fallback; the module fails to load when int() raises
LoadConfig_lenient(env) ==
    [phase |-> "running",
     env |-> env,
     API_KEY |-> IF env.API_KEY = Unset THEN DEFAULT_API_KEY ELSE env.API_KEY,
     MAX_EMAILS |-> IF env.MAX_EMAILS \in DOMAIN IntOf
                    THEN IntOf[env.MAX_EMAILS] ELSE DEFAULT_MAX_EMAILS]

LoadConfig(env) ==
    LET key == IF env.API_KEY = Unset THEN DEFAULT_API_KEY ELSE env.API_KEY
    IN  IF env.MAX_EMAILS = Unset
        THEN [phase |-> "running", env |-> env, API_KEY |-> key,
              MAX_EMAILS |-> DEFAULT_MAX_EMAILS]
        ELSE IF env.MAX_EMAILS \in DOMAIN IntOf
        THEN [phase |-> "running", env |-> env, API_KEY |-> key,
              MAX_EMAILS |-> IntOf[env.MAX_EMAILS]]
        ELSE [phase |-> "aborted", env |-> env, API_KEY |-> key, MAX_EMAILS |-> 0]

\* the limit the running process works with
MAX_EMAILS == proc.MAX_EMAILS

\* ------------------------------------------------------------- helpers
RECURSIVE SeqsUpTo(_, _)
SeqsUpTo(S, n) ==
    IF n = 0 THEN {<<>>}
    ELSE LET shorter == SeqsUpTo(S, n - 1)
         IN shorter \cup {Append(q, x) : q \in {t \in shorter : Len(t) = n - 1}, x \in S}

RECURSIVE DropNa(_)
DropNa(col) ==
    IF col = <<>> THEN <<>>
    ELSE IF Head(col) = NaN THEN DropNa(Tail(col))
         ELSE <<Head(col)>> \o DropNa(Tail(col))

\* q[:n] of a Python list: the first n elements, or all but the last -n
Prefix(q, n) ==
    LET stop == IF n < 0 THEN (IF Len(q) + n < 0 THEN 0 ELSE Len(q) + n)
                ELSE IF Len(q) < n THEN Len(q) ELSE n
    IN  SubSeq(q, 1, stop)

NoFile == [exists |-> FALSE, content |-> <<>>]
Truncated == [exists |-> TRUE, content |-> <<>>]
Written(c) == [exists |-> TRUE, content |-> c]

\* ------------------------------------------------------------ read_emails
\* df[email_col].dropna().astype(str).tolist() cut to the first MAX_EMAILS
read_emails(column) == Prefix(DropNa(column), MAX_EMAILS)

\* The uploads a client can send.
Uploads ==
    {[kind |-> k, column |-> <<>>] : k \in {"nofile", "noname", "badext", "unparseable"}}
    \cup {[kind |-> "table", column |-> c] : c \in SeqsUpTo(Cells, MaxRows)}

\* --------------------------------------------------------- validate_email
\* What the remote call can do: answer with a JSON object carrying a
\* result (and reason), answer with one that lacks them, or fail.
Remote ==
    { [kind |-> "json", result |-> "valid", reason |-> "accepted_email"],
      [kind |-> "json", result |-> "invalid", reason |-> "rejected_email"],
      [kind |-> "json", result |-> "", reason |-> ""],
      [kind |-> "raise", result |-> "", reason |-> "timeout"] }

\* returns <<raised, status, reason>>; raised is TRUE when the call
\* propagates an exception instead of returning
validate_email_propagates(r) ==
    IF r.kind = "raise" THEN <<TRUE, "", r.reason>>
    ELSE <<FALSE, IF r.result = "" THEN "unknown" ELSE r.result, r.reason>>

validate_email(r) ==
    IF r.kind = "raise" THEN <<FALSE, "error", r.reason>>
    ELSE <<FALSE, IF r.result = "" THEN "unknown" ELSE r.result, r.reason>>

\* ----------------------------------------------------------- dict update
\* results[email] = (status, reason): a new key goes last, an existing key
\* keeps its place and takes the new value
DictSet_appendAlways(d, k, v) == Append(d, <<k, v[1], v[2]>>)

DictSet_keepFirst(d, k, v) ==
    IF \E j \in 1..Len(d) : d[j][1] = k
    THEN d
    ELSE Append(d, <<k, v[1], v[2]>>)

DictSet(d, k, v) ==
    IF \E j \in 1..Len(d) : d[j][1] = k
    THEN [j \in 1..Len(d) |-> IF d[j][1] = k THEN <<k, v[1], v[2]>> ELSE d[j]]
    ELSE Append(d, <<k, v[1], v[2]>>)

\* ----------------------------------------------------------- save_results
RECURSIVE Select(_, _)
Select(d, keep) ==
    IF d = <<>> THEN <<>>
    ELSE IF (Head(d)[2] = "valid") = keep
         THEN <<Head(d)>> \o Select(Tail(d), keep)
         ELSE Select(Tail(d), keep)

valid_notRejected(d) ==
    SelectSeq(d, LAMBDA row : row[2] # "invalid")

valid(d) == Select(d, TRUE)

invalid_onlyRejected(d) ==
    SelectSeq(d, LAMBDA row : row[2] = "invalid")

invalid(d) == Select(d, FALSE)

ValidHeader == <<"Email", "Status">>
InvalidHeader == <<"Email", "Status", "Reason">>

ValidTable_headerIfRows(d) ==
    IF valid(d) = <<>> THEN <<>>
    ELSE <<ValidHeader>> \o [j \in 1..Len(valid(d)) |-> <<valid(d)[j][1], "valid">>]

ValidTable(d) ==
    <<ValidHeader>> \o [j \in 1..Len(valid(d)) |-> <<valid(d)[j][1], "valid">>]
InvalidTable(d) ==
    <<InvalidHeader>> \o [j \in 1..Len(invalid(d)) |-> invalid(d)[j]]

\* -------------------------------------------------------------- snapshot
InitialProgress(s, n) ==
    [session_id |-> s, total |-> n, processed |-> 0, status |-> "processing",
     limit |-> MAX_EMAILS, valid_count |-> Absent, invalid_count |-> Absent]

\* line 88: validation_progress['processed'] = i
NextProcessed_accumulate(p, i) == [p EXCEPT !.processed = @ + i]

NextProcessed_zeroBased(p, i) == [p EXCEPT !.processed = i - 1]

NextProcessed(p, i) == [p EXCEPT !.processed = i]

\* lines 97-102: status and the counts returned by save_results
FinalProgress_statusKept(p, d) ==
    [p EXCEPT !.valid_count = Len(valid(d)), !.invalid_count = Len(invalid(d))]

FinalProgress(p, d) ==
    [p EXCEPT !.status = "complete",
              !.valid_count = Len(valid(d)),
              !.invalid_count = Len(invalid(d))]

NoSnapshot ==
    [session_id |-> 0, total |-> 0, processed |-> 0, status |-> "none",
     limit |-> 0, valid_count |-> Absent, invalid_count |-> Absent]

\* ------------------------------------------------------------------ Init
\* no session yet
NoSessions ==
    /\ reqpc = [s \in Sessions |-> "idle"]
    /\ submitResp = [s \in Sessions |-> [code |-> 0, error |-> "", total |-> 0]]
    /\ extracted = [s \in Sessions |-> 0]
    /\ emails = [s \in Sessions |-> <<>>]
    /\ vp = [s \in Sessions |-> NoSnapshot]
    /\ progressFile = [s \in Sessions |-> NoFile]
    /\ validFile = [s \in Sessions |-> NoFile]
    /\ invalidFile = [s \in Sessions |-> NoFile]
    /\ wpc = [s \in Sessions |-> "none"]
    /\ results = [s \in Sessions |-> <<>>]
    /\ callLog = [s \in Sessions |-> <<>>]
    /\ writes = [s \in Sessions |-> 0]
    /\ lastProg = [sid |-> 0, code |-> 0, snap |-> NoSnapshot]
    /\ lastDl = [sid |-> 0, type |-> "", code |-> 0, content |-> <<>>]

\* The process is up, started with a credential and MAX_EMAILS=2.
Init ==
    /\ proc = LoadConfig([API_KEY |-> "secret", MAX_EMAILS |-> "2"])
    /\ NoSessions

\* The process before the module is loaded, in any environment.
InitStartup ==
    /\ \E env \in Environments :
          proc = [phase |-> "booting", env |-> env, API_KEY |-> "", MAX_EMAILS |-> 0]
    /\ NoSessions

\* lines 16-32: the module is loaded
Startup ==
    /\ proc.phase = "booting"
    /\ proc' = LoadConfig(proc.env)
    /\ UNCHANGED <<reqpc, submitResp, extracted, emails, vp, progressFile, validFile,
                   invalidFile, wpc, results, callLog, writes, lastProg, lastDl>>

\* ---------------------------------------------------------------- Submit
\* Why validate_emails rejects an upload ("" when it accepts it).
SubmitError(u) ==
    IF u.kind = "nofile" THEN "No file uploaded"
    ELSE IF u.kind = "noname" THEN "No file selected"
    ELSE IF u.kind = "badext" THEN "Unsupported file type"
    ELSE IF u.kind = "unparseable" THEN "ParseError"
    ELSE IF read_emails(u.column) = <<>> THEN "No emails found in the file"
    ELSE IF Len(read_emails(u.column)) > MAX_EMAILS THEN "TooManyAddresses"
    ELSE ""

SubmitReject_writesProgress(s) ==
    /\ proc.phase = "running"
    /\ reqpc[s] = "idle"
    /\ \A t \in Sessions : t < s => reqpc[t] # "idle"
    /\ \E u \in Uploads :
        /\ SubmitError(u) # ""
        /\ extracted' = [extracted EXCEPT ![s] = Len(DropNa(u.column))]
        /\ submitResp' = [submitResp EXCEPT ![s] =
                             [code |-> 400, error |-> SubmitError(u), total |-> 0]]
        /\ progressFile' = [progressFile EXCEPT ![s] =
                               Written(<<InitialProgress(s, Len(read_emails(u.column)))>>)]
    /\ reqpc' = [reqpc EXCEPT ![s] = "rejected"]
    /\ UNCHANGED <<proc, emails, vp, validFile, invalidFile, wpc,
                   results, callLog, writes, lastProg, lastDl>>

\* validate_emails, lines 36-66: a rejected upload
SubmitReject(s) ==
    /\ proc.phase = "running"
    /\ reqpc[s] = "idle"
    /\ \A t \in Sessions : t < s => reqpc[t] # "idle"
    /\ \E u \in Uploads :
        /\ SubmitError(u) # ""
        /\ extracted' = [extracted EXCEPT ![s] = Len(DropNa(u.column))]
        /\ submitResp' = [submitResp EXCEPT ![s] =
                             [code |-> 400, error |-> SubmitError(u), total |-> 0]]
    /\ reqpc' = [reqpc EXCEPT ![s] = "rejected"]
    /\ UNCHANGED <<proc, emails, vp, progressFile, validFile, invalidFile, wpc,
                   results, callLog, writes, lastProg, lastDl>>

\* validate_emails, lines 36-77: an accepted upload, up to open(progress_file, 'w')
SubmitAccept(s) ==
    /\ proc.phase = "running"
    /\ reqpc[s] = "idle"
    /\ \A t \in Sessions : t < s => reqpc[t] # "idle"
    /\ \E u \in Uploads :
        /\ SubmitError(u) = ""
        /\ extracted' = [extracted EXCEPT ![s] = Len(DropNa(u.column))]
        /\ emails' = [emails EXCEPT ![s] = read_emails(u.column)]
        /\ vp' = [vp EXCEPT ![s] = InitialProgress(s, Len(read_emails(u.column)))]
    /\ progressFile' = [progressFile EXCEPT ![s] = Truncated]
    /\ writes' = [writes EXCEPT ![s] = @ + 1]
    /\ reqpc' = [reqpc EXCEPT ![s] = "opened"]
    /\ UNCHANGED <<proc, submitResp, validFile, invalidFile, wpc, results, callLog,
                   lastProg, lastDl>>

SubmitDump_forgotten(s) ==
    /\ reqpc[s] = "opened"
    /\ reqpc' = [reqpc EXCEPT ![s] = "dumped"]
    /\ UNCHANGED <<proc, submitResp, extracted, emails, vp, progressFile, validFile,
                   invalidFile, wpc, results, callLog, writes, lastProg, lastDl>>

\* line 78: json.dump(validation_progress, f) and the close of the file
SubmitDump(s) ==
    /\ reqpc[s] = "opened"
    /\ progressFile' = [progressFile EXCEPT ![s] = Written(<<vp[s]>>)]
    /\ reqpc' = [reqpc EXCEPT ![s] = "dumped"]
    /\ UNCHANGED <<proc, submitResp, extracted, emails, vp, validFile, invalidFile, wpc,
                   results, callLog, writes, lastProg, lastDl>>

\* line 106: threading.Thread(target=_process, daemon=True).start()
SubmitStart(s) ==
    /\ reqpc[s] = "dumped"
    /\ wpc' = [wpc EXCEPT ![s] = "verify"]
    /\ reqpc' = [reqpc EXCEPT ![s] = "started"]
    /\ UNCHANGED <<proc, submitResp, extracted, emails, vp, progressFile, validFile,
                   invalidFile, results, callLog, writes, lastProg, lastDl>>

SubmitReturn_joins(s) ==
    /\ reqpc[s] = "started"
    /\ wpc[s] = "done"
    /\ submitResp' = [submitResp EXCEPT ![s] =
                         [code |-> 200, error |-> "", total |-> Len(emails[s])]]
    /\ reqpc' = [reqpc EXCEPT ![s] = "returned"]
    /\ UNCHANGED <<proc, extracted, emails, vp, progressFile, validFile, invalidFile, wpc,
                   results, callLog, writes, lastProg, lastDl>>

\* lines 109-115: the response of the accepted Submit
SubmitReturn(s) ==
    /\ reqpc[s] = "started"
    /\ submitResp' = [submitResp EXCEPT ![s] =
                         [code |-> 200, error |-> "", total |-> Len(emails[s])]]
    /\ reqpc' = [reqpc EXCEPT ![s] = "returned"]
    /\ UNCHANGED <<proc, extracted, emails, vp, progressFile, validFile, invalidFile, wpc,
                   results, callLog, writes, lastProg, lastDl>>

\* ---------------------------------------------------------------- worker
\* _process, lines 83-89: one verification call, the dict update and the
\* update of the in-memory progress
Verify(s) ==
    /\ wpc[s] = "verify"
    /\ \E r \in Remote :
        LET out == validate_email(r)
            i == Len(callLog[s]) + 1
        IN  /\ callLog' = [callLog EXCEPT ![s] =
                               Append(@, [email |-> emails[s][i], remote |-> r.kind,
                                          status |-> out[2], reason |-> out[3]])]
            /\ IF out[1]
               THEN /\ wpc' = [wpc EXCEPT ![s] = "crashed"]
                    /\ UNCHANGED <<proc, results, vp>>
               ELSE /\ results' = [results EXCEPT ![s] =
                                      DictSet(@, emails[s][i], <<out[2], out[3]>>)]
                    /\ vp' = [vp EXCEPT ![s] = NextProcessed(@, i)]
                    /\ wpc' = [wpc EXCEPT ![s] = "open"]
    /\ UNCHANGED <<proc, reqpc, submitResp, extracted, emails, progressFile, validFile,
                   invalidFile, writes, lastProg, lastDl>>

OpenProgress_sharedFile(s) ==
    /\ wpc[s] = "open"
    /\ progressFile' = [progressFile EXCEPT ![1] = Truncated]
    /\ writes' = [writes EXCEPT ![1] = @ + 1]
    /\ wpc' = [wpc EXCEPT ![s] = "dump"]
    /\ UNCHANGED <<proc, reqpc, submitResp, extracted, emails, vp, validFile, invalidFile,
                   results, callLog, lastProg, lastDl>>

OpenProgress_onlyAtEnd(s) ==
    /\ wpc[s] = "open"
    /\ IF Len(callLog[s]) < Len(emails[s])
       THEN /\ wpc' = [wpc EXCEPT ![s] = "verify"]
            /\ UNCHANGED <<progressFile, writes>>
       ELSE /\ progressFile' = [progressFile EXCEPT ![s] = Truncated]
            /\ writes' = [writes EXCEPT ![s] = @ + 1]
            /\ wpc' = [wpc EXCEPT ![s] = "dump"]
    /\ UNCHANGED <<proc, reqpc, submitResp, extracted, emails, vp, validFile, invalidFile,
                   results, callLog, lastProg, lastDl>>

\* line 91: open(progress_file, 'w')
OpenProgress(s) ==
    /\ wpc[s] = "open"
    /\ progressFile' = [progressFile EXCEPT ![s] = Truncated]
    /\ writes' = [writes EXCEPT ![s] = @ + 1]
    /\ wpc' = [wpc EXCEPT ![s] = "dump"]
    /\ UNCHANGED <<proc, reqpc, submitResp, extracted, emails, vp, validFile, invalidFile,
                   results, callLog, lastProg, lastDl>>

DumpProgress_skipsSave(s) ==
    /\ wpc[s] = "dump"
    /\ progressFile' = [progressFile EXCEPT ![s] = Written(<<vp[s]>>)]
    /\ wpc' = [wpc EXCEPT ![s] =
                  IF Len(callLog[s]) < Len(emails[s]) THEN "verify" ELSE "mark"]
    /\ UNCHANGED <<proc, reqpc, submitResp, extracted, emails, vp, validFile, invalidFile,
                   results, callLog, writes, lastProg, lastDl>>

\* lines 92-94: json.dump, close, sleep; then the next address or the end of the loop
DumpProgress(s) ==
    /\ wpc[s] = "dump"
    /\ progressFile' = [progressFile EXCEPT ![s] = Written(<<vp[s]>>)]
    /\ wpc' = [wpc EXCEPT ![s] =
                  IF Len(callLog[s]) < Len(emails[s]) THEN "verify" ELSE "save"]
    /\ UNCHANGED <<proc, reqpc, submitResp, extracted, emails, vp, validFile, invalidFile,
                   results, callLog, writes, lastProg, lastDl>>

\* save_results, lines 179-185: open(valid_file, "w")
SaveOpenValid(s) ==
    /\ wpc[s] = "save"
    /\ validFile' = [validFile EXCEPT ![s] = Truncated]
    /\ writes' = [writes EXCEPT ![s] = @ + 1]
    /\ wpc' = [wpc EXCEPT ![s] = "valid_rows"]
    /\ UNCHANGED <<proc, reqpc, submitResp, extracted, emails, vp, progressFile, invalidFile,
                   results, callLog, lastProg, lastDl>>

\* lines 186-189: header row and rows of the valid table, flushed at close
SaveWriteValid(s) ==
    /\ wpc[s] = "valid_rows"
    /\ validFile' = [validFile EXCEPT ![s] = Written(ValidTable(results[s]))]
    /\ wpc' = [wpc EXCEPT ![s] = "open_invalid"]
    /\ UNCHANGED <<proc, reqpc, submitResp, extracted, emails, vp, progressFile, invalidFile,
                   results, callLog, writes, lastProg, lastDl>>

\* line 191: open(invalid_file, "w")
SaveOpenInvalid(s) ==
    /\ wpc[s] = "open_invalid"
    /\ invalidFile' = [invalidFile EXCEPT ![s] = Truncated]
    /\ writes' = [writes EXCEPT ![s] = @ + 1]
    /\ wpc' = [wpc EXCEPT ![s] = "invalid_rows"]
    /\ UNCHANGED <<proc, reqpc, submitResp, extracted, emails, vp, progressFile, validFile,
                   results, callLog, lastProg, lastDl>>

\* lines 192-198: header row and rows of the invalid table, flushed at close
SaveWriteInvalid(s) ==
    /\ wpc[s] = "invalid_rows"
    /\ invalidFile' = [invalidFile EXCEPT ![s] = Written(InvalidTable(results[s]))]
    /\ wpc' = [wpc EXCEPT ![s] = "mark"]
    /\ UNCHANGED <<proc, reqpc, submitResp, extracted, emails, vp, progressFile, validFile,
                   results, callLog, writes, lastProg, lastDl>>

\* lines 97-103: the counts returned by save_results go into the in-memory
\* progress with status 'complete'; open(progress_file, 'w')
MarkComplete(s) ==
    /\ wpc[s] = "mark"
    /\ vp' = [vp EXCEPT ![s] = FinalProgress(@, results[s])]
    /\ progressFile' = [progressFile EXCEPT ![s] = Truncated]
    /\ writes' = [writes EXCEPT ![s] = @ + 1]
    /\ wpc' = [wpc EXCEPT ![s] = "final_dump"]
    /\ UNCHANGED <<proc, reqpc, submitResp, extracted, emails, validFile, invalidFile,
                   results, callLog, lastProg, lastDl>>

FinalDump_backToLoop(s) ==
    /\ wpc[s] = "final_dump"
    /\ progressFile' = [progressFile EXCEPT ![s] = Written(<<vp[s]>>)]
    /\ vp' = [vp EXCEPT ![s].status = "processing"]
    /\ wpc' = [wpc EXCEPT ![s] = "open"]
    /\ UNCHANGED <<proc, reqpc, submitResp, extracted, emails, validFile, invalidFile,
                   results, callLog, writes, lastProg, lastDl>>

FinalDump_thenSave(s) ==
    /\ wpc[s] = "final_dump"
    /\ progressFile' = [progressFile EXCEPT ![s] = Written(<<vp[s]>>)]
    /\ wpc' = [wpc EXCEPT ![s] = "save"]
    /\ UNCHANGED <<proc, reqpc, submitResp, extracted, emails, vp, validFile, invalidFile,
                   results, callLog, writes, lastProg, lastDl>>

\* line 104: json.dump of the final snapshot; the worker thread ends
FinalDump(s) ==
    /\ wpc[s] = "final_dump"
    /\ progressFile' = [progressFile EXCEPT ![s] = Written(<<vp[s]>>)]
    /\ wpc' = [wpc EXCEPT ![s] = "done"]
    /\ UNCHANGED <<proc, reqpc, submitResp, extracted, emails, vp, validFile, invalidFile,
                   results, callLog, writes, lastProg, lastDl>>

\* ------------------------------------------------------------ GetProgress
\* get_progress: 404 when the file does not exist; json.load of a file
\* that is being rewritten fails (500); else the snapshot.  lastProg.snap
\* keeps the last snapshot the client received for the polled session.
ProgressResponse(s) ==
    IF ~progressFile[s].exists
    THEN [sid |-> s, code |-> 404, snap |-> NoSnapshot]
    ELSE IF progressFile[s].content = <<>>
    THEN [sid |-> s, code |-> 500,
          snap |-> IF lastProg.sid = s THEN lastProg.snap ELSE NoSnapshot]
    ELSE [sid |-> s, code |-> 200, snap |-> progressFile[s].content[1]]

GetProgress(s) ==
    /\ proc.phase = "running"
    /\ lastProg' = ProgressResponse(s)
    /\ UNCHANGED <<proc, reqpc, submitResp, extracted, emails, vp, progressFile, validFile,
                   invalidFile, wpc, results, callLog, writes, lastDl>>

\* --------------------------------------------------------------- Download
FileTypes == {"valid", "invalid", "other"}

DownloadResponse(s, type) ==
    LET file == IF type = "valid" THEN validFile[s] ELSE invalidFile[s]
    IN  IF type \notin {"valid", "invalid"}
        THEN [sid |-> s, type |-> type, code |-> 400, content |-> <<>>]
        ELSE IF ~file.exists
        THEN [sid |-> s, type |-> type, code |-> 404, content |-> <<>>]
        ELSE [sid |-> s, type |-> type, code |-> 200, content |-> file.content]

Download(s) ==
    /\ proc.phase = "running"
    /\ \E type \in FileTypes : lastDl' = DownloadResponse(s, type)
    /\ UNCHANGED <<proc, reqpc, submitResp, extracted, emails, vp, progressFile, validFile,
                   invalidFile, wpc, results, callLog, writes, lastProg>>

\* ------------------------------------------------------------------ Next
Worker(s) ==
    \/ Verify(s)
    \/ OpenProgress(s)
    \/ DumpProgress(s)
    \/ SaveOpenValid(s)
    \/ SaveWriteValid(s)
    \/ SaveOpenInvalid(s)
    \/ SaveWriteInvalid(s)
    \/ MarkComplete(s)
    \/ FinalDump(s)

Submit(s) ==
    \/ SubmitReject(s)
    \/ SubmitAccept(s)
    \/ SubmitDump(s)
    \/ SubmitStart(s)
    \/ SubmitReturn(s)

\* One client: it submits, polls the progress and downloads the tables.
Next ==
    \E s \in Polled :
        \/ Submit(s)
        \/ Worker(s)
        \/ GetProgress(s)
        \/ Download(s)

Spec == Init /\ [][Next]_vars

\* The request thread of an accepted Submit and the worker thread keep
\* running once started (threads of one live process).
Fairness ==
    \A s \in Polled :
        /\ WF_vars(SubmitDump(s) \/ SubmitStart(s) \/ SubmitReturn(s))
        /\ WF_vars(Worker(s))

FairSpec == Spec /\ Fairness

\* Several sessions side by side, nobody polling.
NextWorkers ==
    \E s \in Sessions :
        \/ Submit(s)
        \/ Worker(s)

SpecWorkers == Init /\ [][NextWorkers]_vars

\* The process from its start in any environment, and the session of a
\* client that does not poll.
NextStartup ==
    \/ Startup
    \/ \E s \in Polled :
          \/ Submit(s)
          \/ Worker(s)

SpecStartup == InitStartup /\ [][NextStartup]_vars

\* ============================================================== properties
Accepted(s) == reqpc[s] \in {"opened", "dumped", "started", "returned"}
Persisted(s) == progressFile[s].content # <<>>
Snapshot(s) == progressFile[s].content[1]
Complete(s) == Persisted(s) /\ Snapshot(s).status = "complete"
NoDuplicates(q) == \A j, k \in 1..Len(q) : q[j] = q[k] => j = k
LastOccurrence(q, e) == CHOOSE k \in 1..Len(q) : q[k] = e /\ \A m \in (k + 1)..Len(q) : q[m] # e
DataRows(file) == {file.content[j] : j \in 2..Len(file.content)}
Header(type) == IF type = "valid" THEN ValidHeader ELSE InvalidHeader
Served(s) == lastDl' # lastDl /\ lastDl'.sid = s /\ lastDl'.type \in {"valid", "invalid"}
Polls(s) == lastProg' # lastProg /\ lastProg'.sid = s

\* C1: every snapshot GetProgress returns has 0 <= processed <= total, and
\* the processed of a returned snapshot is never below the processed of the
\* snapshot the previous successful GetProgress of that session returned.
C1_ProcessedMonotone ==
    [][lastProg'.code = 200 =>
        /\ 0 <= lastProg'.snap.processed
        /\ lastProg'.snap.processed <= lastProg'.snap.total
        /\ (lastProg.sid = lastProg'.sid /\ lastProg.snap.status # "none")
              => lastProg'.snap.processed >= lastProg.snap.processed]_vars

\* a poll saw the second address counted while the job was still processing
C1_Witness ==
    /\ lastProg.code = 200
    /\ lastProg.snap.status = "processing"
    /\ lastProg.snap.processed = 2
    /\ lastProg.snap.total = 2

\* C2: under fair scheduling every accepted job reaches a persisted
\* snapshot with status complete, whatever the verification calls return;
\* the worker never ends in a failure state and no persisted snapshot
\* carries a status other than processing or complete.
C2_JobAlwaysCompletes ==
    /\ \A s \in Polled : Accepted(s) ~> Complete(s)
    /\ [](\A s \in Polled :
            /\ wpc[s] # "crashed"
            /\ Persisted(s) => Snapshot(s).status \in {"processing", "complete"})

\* a job of two addresses whose calls both failed is complete
C2_Witness ==
    \E s \in Polled :
        /\ Complete(s)
        /\ Len(callLog[s]) = 2
        /\ \A j \in 1..2 : callLog[s][j].remote = "raise" /\ callLog[s][j].status = "error"

\* C3: once the complete snapshot of a session is persisted it stays
\* persisted, and every later GetProgress of the session returns it.
C3_CompleteIsFinal ==
    [][\A s \in Polled : Complete(s) =>
          /\ Complete(s)'
          /\ Polls(s) => lastProg'.code = 200 /\ lastProg'.snap.status = "complete"]_vars

\* a poll after completion returned status complete
C3_Witness ==
    \E s \in Polled :
        /\ wpc[s] = "done"
        /\ lastProg.sid = s
        /\ lastProg.code = 200
        /\ lastProg.snap.status = "complete"

\* C4: a persisted or returned snapshot with status complete has
\* processed = total.
C4_CompleteMeansAllProcessed ==
    /\ \A s \in Polled : Complete(s) => Snapshot(s).processed = Snapshot(s).total
    /\ (lastProg.code = 200 /\ lastProg.snap.status = "complete")
          => lastProg.snap.processed = lastProg.snap.total

\* the complete snapshot of a two-address job, persisted and returned
C4_Witness ==
    \E s \in Polled :
        /\ Complete(s)
        /\ Snapshot(s).total = 2
        /\ lastProg.code = 200
        /\ lastProg.snap = Snapshot(s)

\* C5 (as claimed): a Submit whose upload holds more than MAX_EMAILS
\* addresses is answered TooManyAddresses, writes no progress file, starts
\* no worker and makes no verification call.
C5_OverLimitRejected ==
    \A s \in Polled :
        (reqpc[s] # "idle" /\ extracted[s] > MAX_EMAILS) =>
            /\ reqpc[s] = "rejected"
            /\ submitResp[s].error = "TooManyAddresses"
            /\ ~progressFile[s].exists
            /\ wpc[s] = "none"
            /\ callLog[s] = <<>>

\* C6 (as claimed): a Download of a partition served while the complete
\* snapshot is not persisted is answered 404; one served after is answered
\* with a table that starts with its header row.
C6_DownloadOnlyAfterComplete ==
    [][\A s \in Polled : Served(s) =>
          IF Complete(s)
          THEN /\ lastDl'.code = 200
               /\ lastDl'.content # <<>>
               /\ Head(lastDl'.content) = Header(lastDl'.type)
          ELSE lastDl'.code = 404]_vars

\* C6 (amended): a Download served before the worker has left its
\* verification loop (or for a session never accepted) is answered 404; one
\* served after the complete snapshot is persisted is answered with a table
\* that starts with its header row, also when the partition has no rows.
C6_DownloadAfterLoop ==
    [][\A s \in Polled : Served(s) =>
          /\ wpc[s] \in {"none", "verify", "open", "dump", "save"} => lastDl'.code = 404
          /\ Complete(s) =>
                /\ lastDl'.code = 200
                /\ lastDl'.content # <<>>
                /\ Head(lastDl'.content) = Header(lastDl'.type)]_vars

\* after completion the download of an empty valid partition is its header
C6_Witness ==
    \E s \in Polled :
        /\ Complete(s)
        /\ valid(results[s]) = <<>>
        /\ lastDl = [sid |-> s, type |-> "valid", code |-> 200, content |-> <<ValidHeader>>]

\* C7: at completion of a job whose address list has no duplicate,
\* valid_count + invalid_count = total.
C7_CountsAddUp ==
    \A s \in Polled :
        (Complete(s) /\ NoDuplicates(emails[s])) =>
            Snapshot(s).valid_count + Snapshot(s).invalid_count = Snapshot(s).total

\* two distinct addresses, one valid and one whose call failed
C7_Witness ==
    \E s \in Polled :
        /\ Complete(s)
        /\ Len(emails[s]) = 2
        /\ NoDuplicates(emails[s])
        /\ Snapshot(s).valid_count = 1
        /\ \E j \in 1..2 : callLog[s][j].status = "error"

\* C8: every verification call counts in processed; at completion
\* processed = total and each address is reported, in exactly one table,
\* with the outcome of the last call made for it.
C8_LastWriteWins ==
    \A s \in Polled :
        /\ wpc[s] # "none" => vp[s].processed = Len(callLog[s])
        /\ Complete(s) =>
            /\ Snapshot(s).processed = Len(emails[s])
            /\ \A j \in 1..Len(emails[s]) :
                LET e == emails[s][j]
                    o == callLog[s][LastOccurrence(emails[s], e)]
                IN  IF o.status = "valid"
                    THEN /\ <<e, "valid">> \in DataRows(validFile[s])
                         /\ \A row \in DataRows(invalidFile[s]) : row[1] # e
                    ELSE /\ <<e, o.status, o.reason>> \in DataRows(invalidFile[s])
                         /\ \A row \in DataRows(validFile[s]) : row[1] # e

\* the same address twice, found valid by the first call and not by the second
C8_Witness ==
    \E s \in Polled :
        /\ Complete(s)
        /\ Len(emails[s]) = 2
        /\ emails[s][1] = emails[s][2]
        /\ callLog[s][1].status = "valid"
        /\ callLog[s][2].status = "invalid"
        /\ Snapshot(s).processed = 2

\* C9: a failing verification call comes back as an outcome with status
\* error, recorded for its address; the worker never dies of it, and under
\* fair scheduling the job then still verifies and counts every address.
C9_FailedCallIsAnOutcome ==
    /\ [](\A s \in Polled :
            /\ wpc[s] # "crashed"
            /\ \A j \in 1..Len(callLog[s]) :
                  callLog[s][j].remote = "raise" => callLog[s][j].status = "error"
            /\ wpc[s] = "open" =>
                  LET o == callLog[s][Len(callLog[s])]
                  IN  \E k \in 1..Len(results[s]) :
                          results[s][k] = <<o.email, o.status, o.reason>>)
    /\ \A s \in Polled :
          (\E j \in 1..Len(callLog[s]) : callLog[s][j].remote = "raise")
             ~> (/\ Complete(s)
                 /\ Len(callLog[s]) = Len(emails[s])
                 /\ Snapshot(s).processed = Len(emails[s]))

\* the first call failed, the second address was verified and counted
C9_Witness ==
    \E s \in Polled :
        /\ Len(callLog[s]) = 2
        /\ callLog[s][1].remote = "raise"
        /\ callLog[s][2].remote = "json"
        /\ Persisted(s)
        /\ Snapshot(s).processed = 2

\* C10: once the complete snapshot is persisted, none of the session's
\* files is opened for writing or changed again.
C10_NoWriteAfterComplete ==
    [][\A s \in Polled : Complete(s) =>
          /\ writes'[s] = writes[s]
          /\ progressFile'[s] = progressFile[s]
          /\ validFile'[s] = validFile[s]
          /\ invalidFile'[s] = invalidFile[s]]_vars

\* a finished worker: one initial write, one per address, two tables, one final
C10_Witness ==
    \E s \in Polled :
        /\ Complete(s)
        /\ wpc[s] = "done"
        /\ Len(emails[s]) = 2
        /\ writes[s] = 6

\* C11: a Submit rejected because no address was extracted is answered
\* with a client error, has no worker, no verification call and no
\* progress file, so a GetProgress for its session id is answered 404.
C11_EmptyUploadLeavesNothing ==
    \A s \in Polled :
        (reqpc[s] = "rejected" /\ submitResp[s].error = "No emails found in the file") =>
            /\ submitResp[s].code = 400
            /\ wpc[s] = "none"
            /\ callLog[s] = <<>>
            /\ ~progressFile[s].exists
            /\ ProgressResponse(s).code = 404
            /\ (lastProg.sid = s /\ lastProg.code # 0) => lastProg.code = 404

\* a table of absent cells only was rejected and its session polled
C11_Witness ==
    \E s \in Polled :
        /\ reqpc[s] = "rejected"
        /\ submitResp[s].error = "No emails found in the file"
        /\ lastProg = [sid |-> s, code |-> 404, snap |-> NoSnapshot]

\* C12 (as claimed): no verification call is made for a session before
\* its Submit has returned.
C12_ReturnBeforeFirstCall ==
    \A s \in Polled : callLog[s] # <<>> => reqpc[s] = "returned"

\* C12 (amended): no verification call is made before the worker is
\* started, which happens after the initial snapshot is written; once the
\* worker is started Submit can return whatever the worker has done, it
\* waits for no verification call (a call may precede the return).
C12_ReturnNeverWaits ==
    \A s \in Polled :
        /\ callLog[s] # <<>> => reqpc[s] \in {"started", "returned"}
        /\ reqpc[s] = "started" => ENABLED SubmitReturn(s)

\* the worker has made a call and Submit has not returned yet
C12_Witness ==
    \E s \in Polled : reqpc[s] = "started" /\ Len(callLog[s]) = 1 /\ wpc[s] = "open"

\* C13: an accepted Submit of N <= MAX_EMAILS addresses reports total = N;
\* the snapshot (processing, total N, processed 0) is persisted before the
\* worker starts and until its first call has returned; a GetProgress
\* served after Submit returned is never answered 404.
C13_InitialSnapshotFirst ==
    /\ [](\A s \in Polled :
            /\ (reqpc[s] = "returned" /\ extracted[s] <= MAX_EMAILS) =>
                  submitResp[s] = [code |-> 200, error |-> "", total |-> extracted[s]]
            /\ (Accepted(s) /\ reqpc[s] # "opened" /\ callLog[s] = <<>>) =>
                  /\ Persisted(s)
                  /\ Snapshot(s) = InitialProgress(s, Len(emails[s]))
            /\ (Accepted(s) /\ extracted[s] <= MAX_EMAILS) => Len(emails[s]) = extracted[s])
    /\ [][\A s \in Polled :
            (reqpc[s] = "returned" /\ Polls(s)) => lastProg'.code # 404]_vars

\* Submit returned total 2 and a poll got the initial snapshot
C13_Witness ==
    \E s \in Polled :
        /\ reqpc[s] = "returned"
        /\ extracted[s] = 2
        /\ submitResp[s].total = 2
        /\ lastProg = [sid |-> s, code |-> 200, snap |-> InitialProgress(s, 2)]

\* C14 (as claimed): a GetProgress served after the session's Submit
\* returned is answered with the snapshot persisted for the session, one
\* for a session that was never accepted with 404; it never fails.
C14_GetProgressNeverFails ==
    [][\A s \in Polled : Polls(s) =>
          IF reqpc[s] = "returned"
          THEN lastProg'.code = 200 /\ lastProg'.snap = Snapshot(s)
          ELSE reqpc[s] \in {"idle", "rejected"} => lastProg'.code = 404]_vars

\* C15: once both tables are written, an address of the outcome map is in
\* the valid table iff its status is 'valid' and in the invalid table iff
\* it is anything else; the tables share no address and together hold
\* exactly the keys of the outcome map.
C15_PartitionByStatus ==
    \A s \in Polled :
        wpc[s] \in {"mark", "final_dump", "done"} =>
            LET inValid == {row[1] : row \in DataRows(validFile[s])}
                inInvalid == {row[1] : row \in DataRows(invalidFile[s])}
                keys == {results[s][k][1] : k \in 1..Len(results[s])}
            IN  /\ \A k \in 1..Len(results[s]) :
                      /\ (results[s][k][1] \in inValid) <=> (results[s][k][2] = "valid")
                      /\ (results[s][k][1] \in inInvalid) <=> (results[s][k][2] # "valid")
                /\ inValid \cap inInvalid = {}
                /\ inValid \cup inInvalid = keys

\* a valid address and one without result: one row in each table
C15_Witness ==
    \E s \in Polled :
        /\ Complete(s)
        /\ \E k \in 1..Len(results[s]) : results[s][k][2] = "valid"
        /\ \E k \in 1..Len(results[s]) : results[s][k][2] = "unknown"
        /\ Len(validFile[s].content) = 2
        /\ Len(invalidFile[s].content) = 2

\* the files of a session in results/, and who holds one open for writing
Files(s) == <<progressFile[s], validFile[s], invalidFile[s], writes[s]>>
RequestWrites(s) == reqpc[s] = "opened"
WorkerWrites(s) == wpc[s] \in {"dump", "valid_rows", "invalid_rows", "final_dump"}

\* C16: with sessions side by side, the request thread of a session has
\* closed the progress file before the session's worker exists, a session
\* has a worker iff its Submit got as far as the thread start, and a step
\* that changes a session's files is a step of that session's own request
\* thread or worker and of no other session's.
C16_OneWriterPerSession ==
    /\ [](\A s \in Sessions :
            /\ ~(RequestWrites(s) /\ (wpc[s] # "none" \/ WorkerWrites(s)))
            /\ (wpc[s] # "none") <=> (reqpc[s] \in {"started", "returned"}))
    /\ [][\A t \in Sessions : Files(t)' # Files(t) =>
            /\ reqpc'[t] # reqpc[t] \/ wpc'[t] # wpc[t]
            /\ \A s \in Sessions \ {t} :
                  /\ reqpc'[s] = reqpc[s]
                  /\ wpc'[s] = wpc[s]
                  /\ Files(s)' = Files(s)]_vars

\* two workers, each with its own progress file open for writing
C16_Witness ==
    /\ wpc[1] = "dump"
    /\ wpc[2] = "final_dump"
    /\ progressFile[1] = Truncated
    /\ progressFile[2] = Truncated

\* the configurations the specification calls fatal
NonIntegerLimit(env) == env.MAX_EMAILS # Unset /\ env.MAX_EMAILS \notin DOMAIN IntOf
NonPositiveLimit(env) == env.MAX_EMAILS \in DOMAIN IntOf /\ IntOf[env.MAX_EMAILS] <= 0
BadConfiguration(env) ==
    \/ env.API_KEY = Unset
    \/ env.MAX_EMAILS = Unset
    \/ NonIntegerLimit(env)
    \/ NonPositiveLimit(env)

\* C17 (as claimed): a process started without credential, or with a
\* missing, non-integer or non-positive limit, never runs and never
\* accepts a Submit.
C17_BadConfigurationNeverServes ==
    BadConfiguration(proc.env) =>
        /\ proc.phase # "running"
        /\ \A s \in Polled : ~Accepted(s)

\* C17 (amended): the start-up aborts exactly when the limit is set to a
\* text that is no integer, and then no Submit is ever handled; with a
\* non-positive integer limit the process runs and rejects every Submit.
C17_AbortOnNonIntegerLimit ==
    /\ proc.phase # "booting" => (proc.phase = "aborted" <=> NonIntegerLimit(proc.env))
    /\ proc.phase # "running" => \A s \in Polled : reqpc[s] = "idle"
    /\ NonPositiveLimit(proc.env) => \A s \in Polled : ~Accepted(s)

\* a process running with MAX_EMAILS=0 has rejected an upload of addresses
C17_Witness ==
    /\ proc.phase = "running"
    /\ proc.env.MAX_EMAILS = "0"
    /\ \E s \in Polled : reqpc[s] = "rejected" /\ extracted[s] > 0

\* C18: when the complete snapshot is persisted both tables are written in
\* full; a Download of either partition served after a GetProgress
\* returned status complete is answered with that table, and the tables do
\* not change while the snapshot is complete.
C18_TablesBeforeComplete ==
    /\ [](\A s \in Polled : Complete(s) =>
            /\ validFile[s] = Written(ValidTable(results[s]))
            /\ invalidFile[s] = Written(InvalidTable(results[s])))
    /\ [][\A s \in Polled :
            /\ (lastProg.sid = s /\ lastProg.snap.status = "complete" /\ Served(s)) =>
                  /\ lastDl'.code = 200
                  /\ lastDl'.content = IF lastDl'.type = "valid"
                                       THEN ValidTable(results[s])
                                       ELSE InvalidTable(results[s])
            /\ Complete(s) =>
                  /\ validFile'[s] = validFile[s]
                  /\ invalidFile'[s] = invalidFile[s]]_vars

\* after a poll returned complete, the invalid table of two rows was downloaded
C18_Witness ==
    \E s \in Polled :
        /\ lastProg.sid = s
        /\ lastProg.code = 200
        /\ lastProg.snap.status = "complete"
        /\ lastDl.sid = s
        /\ lastDl.type = "invalid"
        /\ lastDl.code = 200
        /\ Len(lastDl.content) = 3

\* C19: the j-th verification call is for the j-th address of the list and
\* there are never more calls than addresses; the worker makes a call only
\* with the snapshot of all earlier calls persisted, so a persisted
\* processed is at most the number of calls made and at least one less;
\* after the loop every address has had its call.
C19_OneCallPerAddressInOrder ==
    \A s \in Polled :
        /\ Len(callLog[s]) <= Len(emails[s])
        /\ \A j \in 1..Len(callLog[s]) : callLog[s][j].email = emails[s][j]
        /\ Persisted(s) =>
              /\ Snapshot(s).processed <= Len(callLog[s])
              /\ Len(callLog[s]) - Snapshot(s).processed <= 1
        /\ wpc[s] = "verify" =>
              /\ Persisted(s)
              /\ Snapshot(s).processed = Len(callLog[s])
        /\ wpc[s] \in {"save", "valid_rows", "open_invalid", "invalid_rows",
                       "mark", "final_dump", "done"} =>
              Len(callLog[s]) = Len(emails[s])

\* the second call has returned and the persisted snapshot still says 1
C19_Witness ==
    \E s \in Polled :
        /\ wpc[s] = "open"
        /\ Len(callLog[s]) = 2
        /\ callLog[s][1].email # callLog[s][2].email
        /\ Persisted(s)
        /\ Snapshot(s).processed = 1

\* C20: in the final snapshot valid_count and invalid_count are the
\* numbers of data rows of the two tables, and their sum is the number of
\* distinct addresses of the list, so less than total when an address
\* occurs twice.
C20_CountsAreDistinctAddresses ==
    \A s \in Polled : Complete(s) =>
        /\ Snapshot(s).valid_count = Len(validFile[s].content) - 1
        /\ Snapshot(s).invalid_count = Len(invalidFile[s].content) - 1
        /\ Snapshot(s).valid_count + Snapshot(s).invalid_count
              = Cardinality({emails[s][j] : j \in 1..Len(emails[s])})
        /\ ~NoDuplicates(emails[s]) =>
              Snapshot(s).valid_count + Snapshot(s).invalid_count < Snapshot(s).total

\* the same address twice: total 2, one row in all
C20_Witness ==
    \E s \in Polled :
        /\ Complete(s)
        /\ Snapshot(s).total = 2
        /\ emails[s][1] = emails[s][2]
        /\ Snapshot(s).valid_count = 0
        /\ Snapshot(s).invalid_count = 1

====
